---- MODULE Spec2Model ----
(***************************************************************************)
(* StreamWithTimeout (shed/futures_ext/src/stream/stream_with_timeout.rs): *)
(* a stream adapter that starts a one-shot tokio Delay on its first        *)
(* poll_next and, once that Delay is ready, yields one StreamTimeoutError  *)
(* and then None forever.                                                  *)
(*                                                                         *)
(* Time is a discrete clock `now`.  A Delay created by delay_for(d) at     *)
(* instant t is ready at every instant >= t + d.  One call of poll_next is *)
(* one atomic step taken at instant `now`.  The inner stream S is any      *)
(* producer: it holds a finite sequence of items, is ready or pending, and *)
(* either reports None after its last item or stays pending forever.       *)
(***************************************************************************)
EXTENDS Integers, Sequences, FiniteSets, TLC

\* ---- bounds of the model ------------------------------------------------
MaxDuration == 2        \* durations 0..MaxDuration
MaxItems == 2           \* the inner stream holds at most this many items
MaxItemValue == 1       \* item values 1..MaxItemValue
MaxInnerErr == 1        \* inner error values -MaxInnerErr..-1
MaxIdle == 2            \* clock advance allowed before the first poll
MaxOver == 1            \* clock advance allowed past first poll + duration
MaxTerminalPolls == 2   \* polls recorded beyond items and terminator

VARIABLES
    now,        \* the (simulated) clock
    inner,      \* field inner: S, the wrapped stream
    duration,   \* field duration
    done,       \* field done
    deadline,   \* field deadline: <<>> is None, <<t>> is Some(Delay expiring at t)
    out,        \* history: the Ready results poll_next has returned, in order
    last,       \* history: what the latest poll_next call did
    firstPoll,  \* history: <<>> or <<instant of the first poll_next call>>
    doneAt,     \* history: <<>> or <<instant of the call that set done>>
    wakers,     \* which of "timer", "inner" hold the waker of the consumer's cx
    wakes,      \* the wake events since the latest call, in order of arrival
    obs         \* history: what the latest call found (done, timer, inner, wakes)

vars == <<now, inner, duration, done, deadline, out, last, firstPoll, doneAt,
          wakers, wakes, obs>>

\* ---- values -------------------------------------------------------------
\* Poll<Option<Result<Item, StreamTimeoutError>>>
Pending == [tag |-> "Pending", val |-> 0]
None == [tag |-> "None", val |-> 0]
Some(v) == [tag |-> "Some", val |-> v]
Ok(v) == [tag |-> "Ok", val |-> v]
StreamTimeoutError(d) == [tag |-> "Err", val |-> d]

RECURSIVE SeqsUpTo(_, _)
SeqsUpTo(S, n) ==
    IF n = 0 THEN {<<>>}
    ELSE LET shorter == SeqsUpTo(S, n - 1)
         IN shorter \cup {Append(s, v) : s \in {t \in shorter : Len(t) = n - 1}, v \in S}

\* <S as Stream>::Item: a plain value 1..MaxItemValue, or a value that is
\* itself an error (as the tests' Result<(), Error> items can be), -1, -2, ..
ItemValues == (1..MaxItemValue) \cup {0 - e : e \in 1..MaxInnerErr}
IsInnerErr(v) == v < 0

\* The inner stream S: items it will yield, index of the next one, whether it
\* reports None after the last item, whether its next poll is Ready.
InnerStreams ==
    [items : SeqsUpTo(ItemValues, MaxItems), next : {1},
     ends : BOOLEAN, ready : {FALSE}, ended : {FALSE}]

\* S::poll_next as seen at line 77: Pending, Some(item) or None
inner_poll_next(s) ==
    IF ~s.ready THEN Pending
    ELSE IF s.next <= Len(s.items) THEN Some(s.items[s.next])
    ELSE None

inner_after_poll(s) ==
    IF ~s.ready THEN s
    ELSE IF s.next <= Len(s.items) THEN [s EXCEPT !.next = @ + 1, !.ready = FALSE]
    ELSE [s EXCEPT !.ended = TRUE]

\* ---- StreamWithTimeout --------------------------------------------------
\* StreamWithTimeout::new (lines 39-46)
new(s, d) == [inner |-> s, duration |-> d, done |-> FALSE, deadline |-> <<>>]

\* tokio::time::delay_for(duration), called at instant t (line 63)
delay_for_at_construction(t, d) == d
delay_for(t, d) == t + d

\* Option::get_or_insert_with (lines 61-63)
get_or_insert_with_reset(dl, fresh) == <<fresh>>
get_or_insert_with(dl, fresh) == IF dl = <<>> THEN <<fresh>> ELSE dl

\* deadline.poll_unpin(cx) (line 65): TRUE is Poll::Ready(())
poll_unpin_never(dl, t) == FALSE
poll_unpin_early(dl, t) == t + 1 >= dl[1]
poll_unpin(dl, t) == t >= dl[1]

\* if *this.done { return Poll::Ready(None) } (lines 55-57)
done_short_circuit_off(d) == FALSE
done_short_circuit(d) == d

\* *this.done = true on the timer branch (line 67)
done_after_timeout_unset == FALSE
done_after_timeout == TRUE

\* if res.is_none() { *this.done = true } (lines 78-80)
done_after_inner_unset(res) == FALSE
done_after_inner_on_err(res) == res = None \/ (res.tag = "Some" /\ IsInnerErr(res.val))
done_after_inner_any(res) == res # Pending
done_after_inner(res) == res = None

\* the timer branch returns before the inner stream is polled (lines 65-69)
timer_preempts_off(timerReady, s) == timerReady /\ inner_poll_next(s) = Pending
timer_preempts_by_arrival(timerReady, s) ==
    timerReady /\ ~(wakes # <<>> /\ wakes[1] = "inner" /\ inner_poll_next(s) # Pending)
timer_preempts(timerReady, s) == timerReady

\* Ok(res).transpose() (line 82): Some(x) becomes Some(Ok(x)), None stays None
transpose_ok_drop(res) == None
transpose_ok(res) == IF res.tag = "Some" THEN Ok(res.val) ELSE None

\* deadline.poll_unpin(cx) (line 65): a Delay that is pending keeps cx's waker
timer_registers(timerReady) == ~timerReady

\* this.inner.poll_next(cx) (line 77): a stream that is pending keeps cx's waker
inner_registers_never(res) == FALSE
inner_registers(res) == res = Pending

Register(src, keeps) == IF keeps THEN wakers \cup {src} ELSE wakers \ {src}

Init ==
    /\ now = 0
    /\ \E s \in InnerStreams, d \in 0..MaxDuration :
          LET this == new(s, d)
          IN /\ inner = this.inner
             /\ duration = this.duration
             /\ done = this.done
             /\ deadline = this.deadline
    /\ out = <<>>
    /\ last = [res |-> [tag |-> "NoCall", val |-> 0], timer |-> FALSE, inner |-> FALSE,
               at |-> 0, wasDone |-> FALSE]
    /\ firstPoll = <<>>
    /\ doneAt = <<>>
    /\ wakers = {}
    /\ wakes = <<>>
    /\ obs = [done |-> FALSE, fired |-> FALSE, inner |-> Pending, wakes |-> <<>>]

\* the clock advances (tokio::time::advance, or real time passing)
Advance ==
    /\ IF firstPoll = <<>> THEN now < MaxIdle
       ELSE now < firstPoll[1] + duration + MaxOver
    /\ now' = now + 1
    /\ IF "timer" \in wakers /\ deadline # <<>> /\ now' >= deadline[1]
       THEN wakers' = wakers \ {"timer"} /\ wakes' = Append(wakes, "timer")
       ELSE UNCHANGED <<wakers, wakes>>
    /\ UNCHANGED <<inner, duration, done, deadline, out, last, firstPoll, doneAt, obs>>

\* the inner stream gets its next item, or its end, ready
InnerBecomesReady ==
    /\ ~inner.ready
    /\ ~inner.ended
    /\ inner.next <= Len(inner.items) \/ inner.ends
    /\ inner' = [inner EXCEPT !.ready = TRUE]
    /\ IF "inner" \in wakers
       THEN wakers' = wakers \ {"inner"} /\ wakes' = Append(wakes, "inner")
       ELSE UNCHANGED <<wakers, wakes>>
    /\ UNCHANGED <<now, duration, done, deadline, out, last, firstPoll, doneAt, obs>>

Record(res, polledTimer, polledInner) ==
    /\ out' = IF res = Pending THEN out ELSE Append(out, res)
    /\ last' = [res |-> res, timer |-> polledTimer, inner |-> polledInner,
                at |-> now, wasDone |-> done]
    /\ firstPoll' = IF firstPoll = <<>> THEN <<now>> ELSE firstPoll
    /\ doneAt' = IF ~done /\ done' THEN <<now>> ELSE doneAt
    /\ obs' = [done |-> done, fired |-> now >= firstPoll'[1] + duration,
               inner |-> inner_poll_next(inner), wakes |-> wakes]
    /\ wakes' = <<>>

\* StreamWithTimeout::poll_next (lines 52-83), one whole call at instant now
poll_next ==
    /\ Len(out) < Len(inner.items) + 1 + MaxTerminalPolls
    /\ IF done_short_circuit(done)
       THEN /\ Record(None, FALSE, FALSE)
            /\ UNCHANGED <<now, inner, duration, done, deadline, wakers>>
       ELSE LET dl == get_or_insert_with(deadline, delay_for(now, duration))
                timerReady == poll_unpin(dl, now)
            IN /\ deadline' = dl
               /\ IF timer_preempts(timerReady, inner)
                  THEN /\ done' = (done_after_timeout \/ done)
                       /\ Record(StreamTimeoutError(duration), TRUE, FALSE)
                       /\ wakers' = Register("timer", timer_registers(timerReady))
                       /\ UNCHANGED <<now, inner, duration>>
                  ELSE LET res == inner_poll_next(inner)
                       IN /\ inner' = inner_after_poll(inner)
                          /\ done' = (done_after_inner(res) \/ done)
                          /\ Record(IF res = Pending THEN Pending ELSE transpose_ok(res),
                                    TRUE, TRUE)
                          /\ wakers' = (Register("timer", timer_registers(timerReady))
                                           \ {"inner"})
                                        \cup (IF inner_registers(res) THEN {"inner"} ELSE {})
                          /\ UNCHANGED <<now, duration>>

Next == Advance \/ InnerBecomesReady \/ poll_next

Spec == Init /\ [][Next]_vars

\* the consumer keeps polling and the clock keeps advancing
LiveSpec == Spec /\ WF_vars(poll_next) /\ WF_vars(Advance)

\* a consumer driven by an executor: it calls poll_next to start, after a
\* Ready result, and after a Pending result only once it has been woken
ConsumerPoll ==
    /\ last.res # Pending \/ wakes # <<>>
    /\ poll_next

WakeNext == Advance \/ InnerBecomesReady \/ ConsumerPoll

\* the executor runs a woken consumer
WakeSpec == Init /\ [][WakeNext]_vars /\ WF_vars(ConsumerPoll)

\* ---- reading the history ------------------------------------------------
IsOk(r) == r.tag = "Ok"
IsErr(r) == r.tag = "Err"

Count(s, P(_)) == Cardinality({i \in 1..Len(s) : P(s[i])})
ErrCount(s) == Count(s, IsErr)
OkCount(s) == Count(s, IsOk)

\* number of leading Ok entries of s
LeadingOk(s) ==
    IF \A i \in 1..Len(s) : IsOk(s[i]) THEN Len(s)
    ELSE (CHOOSE i \in 1..Len(s) : ~IsOk(s[i]) /\ \A j \in 1..(i - 1) : IsOk(s[j])) - 1

\* the values of the leading Ok entries, and what follows them
Delivered(s) == [i \in 1..LeadingOk(s) |-> s[i].val]
Rest(s) == SubSeq(s, LeadingOk(s) + 1, Len(s))

IsPrefix(a, b) == Len(a) <= Len(b) /\ a = SubSeq(b, 1, Len(a))
AllNone(s, from) == \A i \in from..Len(s) : s[i] = None

\* the timer of this adapter is ready at the current instant
Elapsed == deadline # <<>> /\ now >= deadline[1]
\* a step that is a poll_next call returning Ready
ReadyCall == out' # out
\* a step that is a poll_next call (a call that repeats the latest Pending
\* call at the same instant with nothing changed in between leaves no trace)
CallStep == out' # out \/ last' # last \/ obs' # obs
\* the sequence has been drained: poll_next has returned None
Drained == out # <<>> /\ out[Len(out)] = None

\* ---- claims -------------------------------------------------------------

\* C1 (timeout truncation): whenever the deadline (first poll + duration) has
\* elapsed and the inner stream has not reported None, the results so far are
\* Ok of a prefix of the inner items, in order, followed by nothing (no call
\* was made since the deadline elapsed) or by exactly one
\* Err(StreamTimeoutError(duration)) and then only None; and once a call has
\* been made at or after the deadline the Err is there.
C1_TimeoutTruncation ==
    (Elapsed /\ ~inner.ended) =>
        /\ IsPrefix(Delivered(out), inner.items)
        /\ Rest(out) # <<>> =>
              /\ Rest(out)[1] = StreamTimeoutError(duration)
              /\ AllNone(Rest(out), 2)
        /\ (last.res.tag # "NoCall" /\ last.at >= deadline[1]) => ErrCount(out) = 1

\* C1 witness: one item delivered, then the timeout error, then None.
C1_Witness ==
    /\ Elapsed /\ ~inner.ended
    /\ Len(out) = 3
    /\ IsOk(out[1]) /\ out[2] = StreamTimeoutError(duration) /\ out[3] = None

\* C2 (pass-through): once the inner stream has yielded all its items and
\* reported None, which it did strictly before the deadline, the results are
\* exactly Ok of every inner item in order and then only None, never an Err,
\* whatever the clock and the consumer do afterwards.
C2_PassThrough ==
    inner.ended =>
        /\ doneAt # <<>> /\ doneAt[1] < firstPoll[1] + duration
        /\ Delivered(out) = inner.items
        /\ Rest(out) # <<>>
        /\ AllNone(Rest(out), 1)
        /\ ErrCount(out) = 0

\* C2 witness: two items passed through, end reported, and the consumer polled
\* again after the clock went past the deadline.
C2_Witness ==
    /\ inner.ended /\ Len(inner.items) = 2
    /\ Elapsed /\ last.at >= deadline[1]
    /\ Len(out) >= 4

\* C3 as stated (result guarantee with a STRICT prefix on the timeout path):
\* a timeout error in the output implies that at least one inner item was
\* left undelivered.  Stated for a positive duration and an inner stream
\* that has items, where a strict prefix exists.
C3_Original_StrictPrefix ==
    /\ IsPrefix(Delivered(out), inner.items)
    /\ (ErrCount(out) > 0 /\ duration > 0 /\ Len(inner.items) > 0) =>
          Len(Delivered(out)) < Len(inner.items)

\* C3 amended (result guarantee): the results are Ok of a prefix of the inner
\* items and nothing else while the adapter is active; once it is done they
\* are either (a) Ok of all inner items then only None, or (b) Ok of a prefix
\* of the inner items (possibly all of them) then exactly one timeout error
\* then only None.
C3_ResultGuarantee ==
    /\ IsPrefix(Delivered(out), inner.items)
    /\ ~done => Rest(out) = <<>>
    /\ done =>
          /\ Rest(out) # <<>>
          /\ \/ /\ Rest(out)[1] = None
                /\ Delivered(out) = inner.items
                /\ inner.ended
             \/ /\ Rest(out)[1] = StreamTimeoutError(duration)
                /\ ~inner.ended
          /\ AllNone(Rest(out), 2)

\* C3 witness: every inner item was delivered and the timeout error followed.
C3_Witness ==
    /\ done /\ Drained
    /\ Len(inner.items) = 2 /\ Delivered(out) = inner.items
    /\ ErrCount(out) = 1

\* C4 (terminal idempotence): from a state where done is true, every step
\* keeps done true and leaves the timer and the inner stream's position
\* untouched, and every poll_next call returns None without polling the
\* timer or the inner stream, however far the clock has advanced.
C4_TerminalIdempotence ==
    [][done =>
          /\ done'
          /\ deadline' = deadline
          /\ inner'.next = inner.next /\ inner'.ended = inner.ended
          /\ ReadyCall => /\ out' = Append(out, None)
                          /\ ~last'.timer /\ ~last'.inner]_vars

\* C4 witness: the inner stream ended normally, the clock then passed the
\* deadline, and a call made in the done state returned.
C4_Witness ==
    /\ inner.ended /\ last.wasDone
    /\ Elapsed /\ last.at >= deadline[1]
    /\ last.res = None

\* C5 (lazy clock start): the timer expires at first-poll instant + duration
\* whatever the clock was at the first poll; a timeout error is present only
\* if the clock has reached that instant; so with a positive duration and no
\* clock advance since the first poll there is no timeout error.
C5_LazyClockStart ==
    /\ deadline # <<>> => deadline[1] = firstPoll[1] + duration
    /\ ErrCount(out) > 0 => now >= firstPoll[1] + duration
    /\ (firstPoll # <<>> /\ now = firstPoll[1] /\ duration > 0) => ErrCount(out) = 0

\* C5 witness: more than duration elapsed before the first poll, and the
\* inner stream was then delivered in full without a timeout.
C5_Witness ==
    /\ firstPoll # <<>> /\ firstPoll[1] > duration /\ duration > 0
    /\ now = firstPoll[1]
    /\ inner.ended /\ Len(inner.items) = 2
    /\ out = <<Ok(inner.items[1]), Ok(inner.items[2]), None>>

\* C6 (single error emission): the output never holds more than one timeout
\* error, and a call returns the timeout error only while the adapter is not
\* done, having polled the timer at an instant at which it had fired.
C6_SingleError ==
    [][/\ ErrCount(out') <= 1
       /\ (ReadyCall /\ IsErr(last'.res)) =>
             /\ ~done /\ done'
             /\ last'.timer /\ ~last'.inner
             /\ now >= deadline'[1]
             /\ out' = Append(out, StreamTimeoutError(duration))
       /\ ErrCount(out) = 1 => out'[Len(out')] # StreamTimeoutError(duration) \/ out' = out]_vars

\* C6 witness: the timeout error was returned, the clock advanced further and
\* two more calls were made, which returned None.
C6_Witness ==
    /\ ErrCount(out) = 1
    /\ Len(Rest(out)) = 3
    /\ last.at > deadline[1]

\* the timer has fired at the instant of a call made now: an existing Delay
\* has reached its expiry, or the Delay this call creates expires at once
FiredAtCall ==
    \/ Elapsed
    \/ deadline = <<>> /\ duration = 0

\* C7 (timer-first tie-break): a call made while not done at which the timer
\* has fired returns the timeout error and does not poll the inner stream,
\* even if the inner stream has an item or its end ready; afterwards no
\* further inner item is ever delivered.
C7_TimerFirst ==
    [][/\ (~done /\ FiredAtCall /\ (out' # out \/ last' # last)) =>
             /\ out' = Append(out, StreamTimeoutError(duration))
             /\ inner' = inner
             /\ done'
       /\ ErrCount(out) > 0 =>
             /\ OkCount(out') = OkCount(out)
             /\ inner'.next = inner.next]_vars

\* C7 witness: the timeout error was returned by a call at which the inner
\* stream had an item ready, and two later calls returned None.
C7_Witness ==
    /\ ErrCount(out) = 1
    /\ inner.ready /\ inner.next <= Len(inner.items)
    /\ Len(Rest(out)) = 3

\* C8 as stated: in a fully drained run a timeout error is in the output
\* exactly when the clock has passed first-poll instant + duration: an error
\* only if the clock has reached that instant, and an error whenever the
\* clock is strictly past it.
C8_Original_IffClockPassed ==
    Drained =>
        /\ ErrCount(out) = 1 => now >= firstPoll[1] + duration
        /\ now > firstPoll[1] + duration => ErrCount(out) = 1

\* C8 amended: in a fully drained run the output is Ok items, then at most
\* one timeout error, then None, and the timeout error is there exactly when
\* the clock had reached first-poll instant + duration at the call that
\* terminated the adapter, i.e. before the inner stream reported its end.
C8_ErrorIffDeadlineExceeded ==
    Drained =>
        /\ done /\ doneAt # <<>>
        /\ ErrCount(out) <= 1
        /\ ErrCount(out) = 1 <=> doneAt[1] >= firstPoll[1] + duration
        /\ ErrCount(out) = 1 <=> ~inner.ended
        /\ ErrCount(out) = 1 => Rest(out)[1] = StreamTimeoutError(duration)

\* C8 witnesses: a drained run that timed out, and (C8_WitnessNoError) a
\* drained run without error in which the clock passed the deadline later.
C8_Witness ==
    /\ Drained /\ ErrCount(out) = 1
    /\ OkCount(out) = 1
    /\ doneAt[1] > firstPoll[1] + duration

C8_WitnessNoError ==
    /\ Drained /\ ErrCount(out) = 0
    /\ now > firstPoll[1] + duration
    /\ last.at > firstPoll[1] + duration

\* C9 (deadline invariant): the timer is absent exactly when no poll_next
\* call has been made; once present it expires at first-poll instant +
\* duration and no step, including a call that delivers an item, changes it.
C9_DeadlineInv ==
    /\ deadline = <<>> <=> last.res.tag = "NoCall"
    /\ deadline = <<>> <=> firstPoll = <<>>
    /\ deadline # <<>> => deadline = <<firstPoll[1] + duration>>

C9_DeadlineStable == [][deadline # <<>> => deadline' = deadline]_vars

C9_DeadlineInvariant == []C9_DeadlineInv /\ C9_DeadlineStable

\* C9 witness: an item was delivered by a call made after the first poll and
\* after the clock advanced, with the timer still the one of the first poll.
C9_Witness ==
    /\ IsOk(last.res)
    /\ last.at > firstPoll[1]
    /\ deadline = <<firstPoll[1] + duration>>

\* C10 (forced termination): when the consumer keeps polling and the clock
\* keeps advancing, the adapter eventually is done and poll_next has
\* returned None, for every inner stream, also one that never reports None
\* or is never ready.
C10_ForcedTermination == <>(done /\ Drained)

\* C10 witness: an inner stream that never completes, terminated by the
\* timeout, and None returned.
C10_Witness ==
    /\ ~inner.ends
    /\ done /\ Drained
    /\ ErrCount(out) = 1

\* C11 (error opacity): every error in the output is the timeout error
\* carrying the duration given at construction (which never changes), and it
\* is returned only by a call at which the timer had fired; a call made while
\* not done with the timer pending at which the inner stream yields an item
\* returns that item wrapped in Ok and leaves done false, also when the item
\* is itself an error value.
C11_ErrorOpacity ==
    [][/\ duration' = duration
       /\ \A i \in 1..Len(out') : IsErr(out'[i]) => out'[i] = StreamTimeoutError(duration)
       /\ (CallStep /\ IsErr(last'.res)) => obs'.fired
       /\ (CallStep /\ ~obs'.done /\ ~obs'.fired /\ obs'.inner.tag = "Some") =>
             /\ last'.res = Ok(obs'.inner.val)
             /\ out' = Append(out, Ok(obs'.inner.val))
             /\ ~done']_vars

\* C11 witness: an inner error value was delivered as Ok, and a later inner
\* item was delivered after it.
C11_Witness ==
    /\ Len(out) >= 2
    /\ IsOk(out[1]) /\ IsInnerErr(out[1].val)
    /\ IsOk(out[2]) /\ ~IsInnerErr(out[2].val)
    /\ ErrCount(out) = 0

\* C12 (state machine): done is false after construction; a step changes done
\* from false to true only if it is a poll_next call that polled the timer
\* and either (a) found it fired and returned the timeout error without
\* polling the inner stream, or (b) found it pending, polled the inner stream
\* and got None; a call that returns an item or Pending leaves done false;
\* no step changes done from true to false.
C12_DoneTransitions ==
    [][/\ done => done'
       /\ (~done /\ done') =>
             /\ CallStep /\ last'.timer
             /\ \/ /\ obs'.fired /\ ~last'.inner
                   /\ last'.res = StreamTimeoutError(duration)
                \/ /\ ~obs'.fired /\ last'.inner
                   /\ obs'.inner = None /\ last'.res = None
       /\ (CallStep /\ (IsOk(last'.res) \/ last'.res = Pending)) => ~done']_vars

C12_StateMachine == ~done /\ C12_DoneTransitions

\* C12 witness: both ways into Terminated are distinguished by doneAt; here
\* the inner stream's end set done after an item had been delivered.
C12_Witness ==
    /\ done /\ inner.ended /\ OkCount(out) >= 1
    /\ last.res = None /\ ~last.wasDone

\* C13 (single suspension point): the latest call returned Pending exactly
\* when it was made while not done, with the timer not fired and the inner
\* stream not ready at that call; such a call polled both the timer and the
\* inner stream, and when it returns both hold the consumer's waker.
C13_PendingIff ==
    last.res.tag # "NoCall" =>
        /\ last.res = Pending <=> (~obs.done /\ ~obs.fired /\ obs.inner = Pending)
        /\ last.res = Pending => (~last.wasDone /\ last.timer /\ last.inner)

C13_BothRegistered ==
    [][(CallStep /\ last'.res = Pending) => wakers' = {"timer", "inner"}]_vars

C13_SingleSuspension == []C13_PendingIff /\ C13_BothRegistered

\* C13 witness: a call returned Pending after an item had been delivered, and
\* both the timer and the inner stream hold the waker.
C13_Witness ==
    /\ last.res = Pending
    /\ OkCount(out) = 1
    /\ wakers = {"timer", "inner"}
    /\ last.at > firstPoll[1]

\* a source the latest call was waiting for has become ready
SourceReady == Elapsed \/ inner.ready

\* C14 (no lost wake-up): whenever the latest call returned Pending and the
\* timer has fired or the inner stream has become ready since, the consumer
\* has been woken, and the first wake event is that of the source that became
\* ready first; the call the woken consumer makes then returns Ready: the
\* timeout error if the timer has fired, the inner result otherwise; and a
\* consumer suspended with a source ready does get to a Ready result.
C14_Woken ==
    (last.res = Pending /\ SourceReady) =>
        /\ wakes # <<>>
        /\ wakes[1] = "timer" => Elapsed
        /\ wakes[1] = "inner" => inner.ready

C14_NextCallReady ==
    [][(last.res = Pending /\ SourceReady /\ CallStep) =>
          /\ last'.res # Pending
          /\ last'.res = IF Elapsed THEN StreamTimeoutError(duration)
                         ELSE transpose_ok(inner_poll_next(inner))]_vars

C14_Resumes == (last.res = Pending /\ SourceReady) ~> (last.res # Pending)

C14_NoLostWakeup == []C14_Woken /\ C14_NextCallReady /\ C14_Resumes

\* C14 witness: the consumer was suspended, the inner stream's wake arrived
\* first and the timer's second, and the call made then returned the timeout
\* error.
C14_Witness ==
    /\ obs.wakes = <<"inner", "timer">>
    /\ last.res = StreamTimeoutError(duration)
    /\ OkCount(out) = 1

\* C15 (frame of non-terminating calls): a call that returns Ok(item) or
\* Pending was made with done false and leaves it false, leaves duration and
\* the clock alone, and leaves a timer that already existed unchanged; the
\* only state it changes is the timer, created by the very first call at
\* first-poll instant + duration, and the inner stream, which it advances by
\* the item it returns (by nothing when it returns Pending).
C15_Frame ==
    [][(CallStep /\ (IsOk(last'.res) \/ last'.res = Pending)) =>
          /\ ~done /\ ~done'
          /\ duration' = duration /\ now' = now
          /\ deadline # <<>> => deadline' = deadline
          /\ deadline = <<>> => (firstPoll = <<>> /\ deadline' = <<now + duration>>)
          /\ IF IsOk(last'.res)
             THEN inner' = [inner EXCEPT !.next = @ + 1, !.ready = FALSE]
             ELSE inner' = inner]_vars

\* C15 witness: an item was delivered by a call later than the first one,
\* after the clock had advanced, and the adapter is still active.
C15_Witness ==
    /\ IsOk(last.res) /\ ~done
    /\ OkCount(out) = 2
    /\ last.at > firstPoll[1]
    /\ deadline = <<firstPoll[1] + duration>>

\* what a call returns, as a function of what it finds: done, timer fired,
\* readiness of the inner stream; the order of the wake events is no argument
Resolve(o) ==
    IF o.done THEN None
    ELSE IF o.fired THEN StreamTimeoutError(duration)
    ELSE IF o.inner = Pending THEN Pending
    ELSE IF o.inner.tag = "Some" THEN Ok(o.inner.val)
    ELSE None

\* C16 (deterministic race resolution): the result of every call is
\* Resolve of (done, timer fired, inner readiness) at that call, whatever the
\* order in which the wake events of the timer and of the inner stream
\* arrived; so two runs that present the same observations at each call
\* return the same results.
C16_Deterministic ==
    [][CallStep => last'.res = Resolve([done |-> obs'.done, fired |-> obs'.fired,
                                        inner |-> obs'.inner])]_vars

\* C16 witness: both wake events had arrived, the inner stream's first and
\* with an item ready, and the call returned the timeout error.
C16_Witness ==
    /\ obs.wakes = <<"inner", "timer">>
    /\ obs.inner.tag = "Some" /\ obs.fired /\ ~obs.done
    /\ last.res = StreamTimeoutError(duration)

\* the values of all Ok entries of s, in order
RECURSIVE OkVals(_)
OkVals(s) ==
    IF s = <<>> THEN <<>>
    ELSE IF IsOk(Head(s)) THEN <<Head(s).val>> \o OkVals(Tail(s))
    ELSE OkVals(Tail(s))

\* the items taken from the inner stream so far
Taken == SubSeq(inner.items, 1, inner.next - 1)

\* C17 (no buffering, no loss): in every state the Ok items delivered are, in
\* order and without duplication, the items taken from the inner stream; a
\* step takes at most one item from the inner stream and the call that takes
\* it returns it; a call made when done or with the timer fired does not
\* poll the inner stream and takes nothing.
C17_DeliveredIsTaken == OkVals(out) = Taken

C17_OnePollPerCall ==
    [][/\ inner'.next \in {inner.next, inner.next + 1}
       /\ inner'.next = inner.next + 1 =>
             /\ CallStep /\ last'.inner
             /\ out' = Append(out, Ok(inner.items[inner.next]))
       /\ (CallStep /\ (obs'.done \/ obs'.fired)) =>
             /\ ~last'.inner
             /\ inner' = inner]_vars

C17_NoBuffering == []C17_DeliveredIsTaken /\ C17_OnePollPerCall

\* C17 witness: two items taken and delivered, then the timer fired at a call
\* at which the inner stream was ready again.
C17_Witness ==
    /\ OkVals(out) = Taken /\ Len(Taken) = 2
    /\ last.res = StreamTimeoutError(duration)
    /\ inner.ready

\* C18 (no spurious timeout): a call returns the timeout error only at an
\* instant at least duration after the instant of the first call; so with a
\* positive duration no call made strictly before first-poll instant +
\* duration returns it, and the first call never does.
C18_NoSpuriousTimeout ==
    [][(CallStep /\ IsErr(last'.res)) =>
          /\ now >= firstPoll'[1] + duration
          /\ duration > 0 => firstPoll # <<>>]_vars

\* C18 witness: with a positive duration and a first call made after the
\* clock had advanced by more than duration, the timeout error was returned
\* by a call made exactly at first-poll instant + duration.
C18_Witness ==
    /\ firstPoll # <<>>
    /\ duration > 0 /\ firstPoll[1] > duration
    /\ last.res = StreamTimeoutError(duration)
    /\ last.at = firstPoll[1] + duration

====
